---- MODULE Spec2Model ----
(***************************************************************************)
(* Model of the MicroPython binding trezor.crypto.Rfc6979                  *)
(* (micropython/extmod/modtrezorcrypto/modtrezorcrypto-rfc6979.h).         *)
(*                                                                         *)
(* The binding has two entry points: the constructor                       *)
(* mod_TrezorCrypto_Rfc6979_make_new and the method                        *)
(* mod_TrezorCrypto_Rfc6979_next.  The interpreter is single-threaded, so  *)
(* each call is one atomic action.  The state is the interpreter heap as   *)
(* far as the binding touches it: the caller's key and hash buffers, the   *)
(* Rfc6979 objects allocated by m_new_obj, and the bytes objects           *)
(* allocated by next.                                                      *)
(*                                                                         *)
(* The wrapped library (trezor-crypto/rfc6979.h: init_rfc6979,             *)
(* generate_rfc6979, and hmac_sha256 below them) is not part of the        *)
(* binding.  It is modelled after RFC 6979 section 3.2 with HMAC as a      *)
(* collision-free function kept as a table: the digest of a (key,          *)
(* message) pair is the index of that pair in the table, entered on first  *)
(* use, so two digests are equal exactly when their keys and messages      *)
(* are.  Allocation (m_new_obj, vstr_init_len) is taken to succeed; heap   *)
(* exhaustion is the runtime's own fatal path.                             *)
(***************************************************************************)
EXTENDS Integers, Sequences, FiniteSets, TLC

\* ------------------------------------------------------------- bounds
\* m_new_obj allocations of Rfc6979 objects in one run
MaxObj == 2
\* next() calls in one run, over all instances
MaxCalls == 3

\* ---------------------------------------------------- program constants
\* if (pkey.len != 32)
KeyLen == 32
\* if (hash.len != 32)
HashLen == 32
\* vstr_init_len(&vstr, 32)
OutLen == 32
\* mp_arg_check_num(n_args, n_kw, 2, 2, false)
NArgs == 2

VARIABLES
    bufs,     \* contents of the caller's buffers: bufs[1] key, bufs[2] hash
    heap,     \* Rfc6979 objects allocated by m_new_obj, by address 1..Len
    handles,  \* addresses of the objects returned to the caller
    mem,      \* bytes objects' storage allocated by next, by address
    outs,     \* per Rfc6979 object, the addresses next has returned, in order
    seed,     \* per Rfc6979 object, the key and hash contents init read (history)
    oracle,   \* the HMAC table: the (key, message) pairs digested so far
    last      \* outcome of the most recent call

vars == <<bufs, heap, handles, mem, outs, seed, oracle, last>>

\* ---------------------------------------------------- caller's objects
\* Distinct contents the caller's key buffer and hash buffer can hold.
Data == {"A", "B"}
\* Buffer lengths the caller tries: one short, the right one, one long.
Lens == {KeyLen - 1, KeyLen, KeyLen + 1}
\* An argument object: a buffer of some length over some contents, or an
\* object without the buffer protocol.
NonBuffer == [isbuf |-> FALSE, len |-> 0, data |-> "A"]
Buffer(len, data) == [isbuf |-> TRUE, len |-> len, data |-> data]
\* What a call can pass as argument i: a non-buffer, or a view of some
\* length of the caller's buffer i as it is now.
ArgsFor(i) == {NonBuffer} \cup {Buffer(l, bufs[i]) : l \in Lens}
\* The constructor calls the caller can make: two positional arguments, or
\* a wrong argument count (the arguments themselves are then never read).
Call(n_args, n_kw, a0, a1) == [n_args |-> n_args, n_kw |-> n_kw, a0 |-> a0, a1 |-> a1]
Calls ==
    {Call(NArgs, 0, a0, a1) : a0 \in ArgsFor(1), a1 \in ArgsFor(2)}
        \cup {Call(NArgs - 1, 0, NonBuffer, NonBuffer),
              Call(NArgs + 1, 0, NonBuffer, NonBuffer),
              Call(NArgs, 1, NonBuffer, NonBuffer)}

\* ------------------------------------------------- wrapped library
\* A 32-byte value or a single byte, as a tagged symbol.
Sym(t, n) == [t |-> t, n |-> n]
\* The digest entered at index i of the table.
Digest(i) == Sym("digest", i)
\* The single byte b.
Byte(b) == Sym("byte", b)
\* memset(x, b, 32): 32 bytes of value b.
Fill(b) == Sym("fill", b)
\* The 32 bytes read from a caller's buffer holding contents d.
Content(d) == Sym(d, 0)

\* hmac_sha256(key, 32, msg, len, out) against table tbl: the digest of a
\* pair already in the table is its index, a new pair is entered at the end.
hmac_sha256(tbl, key, msg) ==
    LET entry == <<key>> \o msg
        hit == {i \in 1..Len(tbl) : tbl[i] = entry}
    IN  IF hit # {}
        THEN [tbl |-> tbl, out |-> Digest(CHOOSE i \in hit : TRUE)]
        ELSE [tbl |-> Append(tbl, entry), out |-> Digest(Len(tbl) + 1)]

\* rng memory as m_new_obj leaves it before init_rfc6979 has run.
Uninit == [v |-> Sym("uninit", 0), k |-> Sym("uninit", 0)]

\* init_rfc6979(priv_key, hash, &state): RFC 6979 3.2 steps b to g.
init_rfc6979(tbl, priv, hash) ==
    LET v0 == Fill(1)
        k0 == Fill(0)
        h1 == hmac_sha256(tbl, k0, <<v0, Byte(0), Content(priv), Content(hash)>>)
        k1 == h1.out
        h2 == hmac_sha256(h1.tbl, k1, <<v0>>)
        v1 == h2.out
        h3 == hmac_sha256(h2.tbl, k1, <<v1, Byte(1), Content(priv), Content(hash)>>)
        k2 == h3.out
        h4 == hmac_sha256(h3.tbl, k2, <<v1>>)
        v2 == h4.out
    IN  [tbl |-> h4.tbl, state |-> [v |-> v2, k |-> k2]]

\* generate_rfc6979(rnd, &state): RFC 6979 3.2 step h, one 32-byte block,
\* then the K, V update.  Returns the output and the state written back.
generate_rfc6979(tbl, state) ==
    LET h1 == hmac_sha256(tbl, state.k, <<state.v>>)
        v1 == h1.out
        h2 == hmac_sha256(h1.tbl, state.k, <<v1, Byte(0)>>)
        k1 == h2.out
        h3 == hmac_sha256(h2.tbl, k1, <<v1>>)
        v2 == h3.out
    IN  [tbl |-> h3.tbl, rnd |-> v1, state |-> [v |-> v2, k |-> k1]]

\* ------------------------------------------------------ constructor
\* last: the call made (op, its argument counts, the object it worked on)
\* and how it ended (the exception raised, or the address returned).
NoCall == [op |-> "none", n_args |-> 0, n_kw |-> 0, a0 |-> NonBuffer,
           a1 |-> NonBuffer, self |-> 0, exc |-> "none", msg |-> "", ret |-> 0]

\* make_new with the comparison of the key length written as "<".
MakeNewBody_KeyLess(pkey, hash) ==
    IF ~pkey.isbuf \/ ~hash.isbuf
    THEN [exc |-> "TypeError", msg |-> "object with buffer protocol required",
          rng |-> Uninit, tbl |-> oracle]
    ELSE IF pkey.len < KeyLen
    THEN [exc |-> "ValueError", msg |-> "Private key has to be 32 bytes long",
          rng |-> Uninit, tbl |-> oracle]
    ELSE IF hash.len # HashLen
    THEN [exc |-> "ValueError", msg |-> "Hash has to be 32 bytes long",
          rng |-> Uninit, tbl |-> oracle]
    ELSE LET i == init_rfc6979(oracle, pkey.data, hash.data)
         IN  [exc |-> "none", msg |-> "", rng |-> i.state, tbl |-> i.tbl]

\* make_new with the two length checks in the other order.
MakeNewBody_HashFirst(pkey, hash) ==
    IF ~pkey.isbuf \/ ~hash.isbuf
    THEN [exc |-> "TypeError", msg |-> "object with buffer protocol required",
          rng |-> Uninit, tbl |-> oracle]
    ELSE IF hash.len # HashLen
    THEN [exc |-> "ValueError", msg |-> "Hash has to be 32 bytes long",
          rng |-> Uninit, tbl |-> oracle]
    ELSE IF pkey.len # KeyLen
    THEN [exc |-> "ValueError", msg |-> "Private key has to be 32 bytes long",
          rng |-> Uninit, tbl |-> oracle]
    ELSE LET i == init_rfc6979(oracle, pkey.data, hash.data)
         IN  [exc |-> "none", msg |-> "", rng |-> i.state, tbl |-> i.tbl]

\* make_new with init_rfc6979 called before the hash length is checked.
MakeNewBody_InitEarly(pkey, hash) ==
    IF ~pkey.isbuf \/ ~hash.isbuf
    THEN [exc |-> "TypeError", msg |-> "object with buffer protocol required",
          rng |-> Uninit, tbl |-> oracle]
    ELSE IF pkey.len # KeyLen
    THEN [exc |-> "ValueError", msg |-> "Private key has to be 32 bytes long",
          rng |-> Uninit, tbl |-> oracle]
    ELSE IF hash.len # HashLen
    THEN LET i == init_rfc6979(oracle, pkey.data, hash.data)
         IN  [exc |-> "ValueError", msg |-> "Hash has to be 32 bytes long",
              rng |-> i.state, tbl |-> i.tbl]
    ELSE LET i == init_rfc6979(oracle, pkey.data, hash.data)
         IN  [exc |-> "none", msg |-> "", rng |-> i.state, tbl |-> i.tbl]

\* make_new with the call of init_rfc6979 left out.
MakeNewBody_NoInit(pkey, hash) ==
    IF ~pkey.isbuf \/ ~hash.isbuf
    THEN [exc |-> "TypeError", msg |-> "object with buffer protocol required",
          rng |-> Uninit, tbl |-> oracle]
    ELSE IF pkey.len # KeyLen
    THEN [exc |-> "ValueError", msg |-> "Private key has to be 32 bytes long",
          rng |-> Uninit, tbl |-> oracle]
    ELSE IF hash.len # HashLen
    THEN [exc |-> "ValueError", msg |-> "Hash has to be 32 bytes long",
          rng |-> Uninit, tbl |-> oracle]
    ELSE [exc |-> "none", msg |-> "", rng |-> Uninit, tbl |-> oracle]

\* Lines 21-31 of make_new, after the object o has been allocated: the
\* two buffer fetches, the two length checks in order, then init_rfc6979.
\* exc is the exception raised ("none": the object is returned), rng the
\* contents of o->rng when the function is left.
MakeNewBody(pkey, hash) ==
    IF ~pkey.isbuf \/ ~hash.isbuf
    THEN [exc |-> "TypeError", msg |-> "object with buffer protocol required",
          rng |-> Uninit, tbl |-> oracle]
    ELSE IF pkey.len # KeyLen
    THEN [exc |-> "ValueError", msg |-> "Private key has to be 32 bytes long",
          rng |-> Uninit, tbl |-> oracle]
    ELSE IF hash.len # HashLen
    THEN [exc |-> "ValueError", msg |-> "Hash has to be 32 bytes long",
          rng |-> Uninit, tbl |-> oracle]
    ELSE LET i == init_rfc6979(oracle, pkey.data, hash.data)
         IN  [exc |-> "none", msg |-> "", rng |-> i.state, tbl |-> i.tbl]

\* mod_TrezorCrypto_Rfc6979_make_new, called with n_args positional and
\* n_kw keyword arguments, the first two positional ones being a0 and a1.
mod_TrezorCrypto_Rfc6979_make_new(n_args, n_kw, a0, a1) ==
    IF n_kw # 0 \/ n_args # NArgs
    THEN \* mp_arg_check_num raises before anything is allocated
         /\ last' = [NoCall EXCEPT !.op = "new", !.n_args = n_args, !.n_kw = n_kw,
                                   !.exc = "TypeError",
                                   !.msg = IF n_kw # 0
                                           THEN "function doesn't take keyword arguments"
                                           ELSE "function takes 2 positional arguments"]
         /\ UNCHANGED <<bufs, heap, handles, mem, outs, seed, oracle>>
    ELSE /\ Len(heap) < MaxObj
         /\ LET o == Len(heap) + 1
                r == MakeNewBody(a0, a1)
            IN  /\ heap' = Append(heap, [type |-> "Rfc6979", rng |-> r.rng])
                /\ oracle' = r.tbl
                /\ outs' = Append(outs, <<>>)
                /\ seed' = Append(seed, IF r.exc = "none"
                                        THEN <<a0.data, a1.data>> ELSE <<>>)
                /\ handles' = IF r.exc = "none" THEN handles \cup {o} ELSE handles
                /\ last' = [op |-> "new", n_args |-> n_args, n_kw |-> n_kw,
                            a0 |-> a0, a1 |-> a1, self |-> o,
                            exc |-> r.exc, msg |-> r.msg,
                            ret |-> IF r.exc = "none" THEN o ELSE 0]
                /\ UNCHANGED <<bufs, mem>>

\* ------------------------------------------------------------- next
\* The generator state after n calls of generate_rfc6979.
RECURSIVE Advance(_, _, _)
Advance(tbl, state, n) ==
    IF n = 0 THEN [tbl |-> tbl, state |-> state]
    ELSE LET g == generate_rfc6979(tbl, state)
         IN  Advance(g.tbl, g.state, n - 1)

\* next with its output whitened by a static count of the calls made so far.
NextBody_CallCounter(self) ==
    LET addr == Len(mem) + 1
        g == generate_rfc6979(oracle, heap[self].rng)
        w == hmac_sha256(g.tbl, g.rnd, <<Byte(Len(mem))>>)
    IN  [heap |-> [heap EXCEPT ![self].rng = g.state],
         mem |-> Append(mem, [len |-> OutLen, data |-> w.out]),
         ret |-> addr, tbl |-> w.tbl]

\* next with one rfc6979_state shared by all instances (the first object's).
NextBody_SharedRng(self) ==
    LET addr == Len(mem) + 1
        g == generate_rfc6979(oracle, heap[1].rng)
    IN  [heap |-> [heap EXCEPT ![1].rng = g.state],
         mem |-> Append(mem, [len |-> OutLen, data |-> g.rnd]),
         ret |-> addr, tbl |-> g.tbl]

\* next with generate_rfc6979 run on a copy of o->rng that is not stored back.
NextBody_NoWriteBack(self) ==
    LET addr == Len(mem) + 1
        g == generate_rfc6979(oracle, heap[self].rng)
    IN  [heap |-> heap,
         mem |-> Append(mem, [len |-> OutLen, data |-> g.rnd]),
         ret |-> addr, tbl |-> g.tbl]

\* next with the vstr one byte longer than the generator's output.
NextBody_LongVstr(self) ==
    LET addr == Len(mem) + 1
        g == generate_rfc6979(oracle, heap[self].rng)
    IN  [heap |-> [heap EXCEPT ![self].rng = g.state],
         mem |-> Append(mem, [len |-> OutLen + 1, data |-> g.rnd]),
         ret |-> addr, tbl |-> g.tbl]

\* next with the generator keeping pointers to the caller's buffers and
\* deriving its state from what they hold at the time of the call.
NextBody_RereadArgs(self) ==
    LET addr == Len(mem) + 1
        i == init_rfc6979(oracle, bufs[1], bufs[2])
        st == Advance(i.tbl, i.state, Len(outs[self]))
        g == generate_rfc6979(st.tbl, st.state)
    IN  [heap |-> [heap EXCEPT ![self].rng = g.state],
         mem |-> Append(mem, [len |-> OutLen, data |-> g.rnd]),
         ret |-> addr, tbl |-> g.tbl]

\* next writing its output into one static buffer that every call returns.
NextBody_StaticBuf(self) ==
    LET addr == 1
        g == generate_rfc6979(oracle, heap[self].rng)
        obj == [len |-> OutLen, data |-> g.rnd]
    IN  [heap |-> [heap EXCEPT ![self].rng = g.state],
         mem |-> IF mem = <<>> THEN <<obj>> ELSE [mem EXCEPT ![addr] = obj],
         ret |-> addr, tbl |-> g.tbl]

\* mod_TrezorCrypto_Rfc6979_next(self): a vstr of 32 bytes is allocated at a
\* fresh address, generate_rfc6979 fills it from o->rng and advances o->rng
\* in place, and the vstr's storage becomes the returned bytes object.
NextBody(self) ==
    LET addr == Len(mem) + 1
        g == generate_rfc6979(oracle, heap[self].rng)
    IN  [heap |-> [heap EXCEPT ![self].rng = g.state],
         mem |-> Append(mem, [len |-> OutLen, data |-> g.rnd]),
         ret |-> addr, tbl |-> g.tbl]

\* next makes no check of its own: it can be called on every object the
\* caller holds, whatever was called before.
NextCallable(self) == self \in handles

mod_TrezorCrypto_Rfc6979_next(self) ==
    /\ NextCallable(self)
    /\ Len(mem) < MaxCalls
    /\ LET r == NextBody(self)
       IN  /\ heap' = r.heap
           /\ mem' = r.mem
           /\ oracle' = r.tbl
           /\ outs' = [outs EXCEPT ![self] = Append(@, r.ret)]
           /\ last' = [NoCall EXCEPT !.op = "next", !.n_args = 1, !.self = self,
                                     !.ret = r.ret]
    /\ UNCHANGED <<bufs, handles, seed>>

\* ----------------------------------------------------------- caller
\* The caller overwrites the contents of its key or hash buffer between
\* calls.
CallerWrite(i, d) ==
    /\ d # bufs[i]
    /\ bufs' = [bufs EXCEPT ![i] = d]
    /\ last' = [NoCall EXCEPT !.op = "write"]
    /\ UNCHANGED <<heap, handles, mem, outs, seed, oracle>>

Init ==
    /\ bufs \in [{1, 2} -> Data]
    /\ heap = <<>>
    /\ handles = {}
    /\ mem = <<>>
    /\ outs = <<>>
    /\ seed = <<>>
    /\ oracle = <<>>
    /\ last = NoCall

Next ==
    \/ \E c \in Calls : mod_TrezorCrypto_Rfc6979_make_new(c.n_args, c.n_kw, c.a0, c.a1)
    \/ \E self \in 1..MaxObj : mod_TrezorCrypto_Rfc6979_next(self)
    \/ \E i \in {1, 2}, d \in Data : CallerWrite(i, d)

Spec == Init /\ [][Next]_vars

\* ------------------------------------------------------------ claims
\* The most recent call was the constructor, given exactly two positional
\* arguments that both are buffers.
NewOnBuffers ==
    /\ last.op = "new"
    /\ last.n_args = 2 /\ last.n_kw = 0
    /\ last.a0.isbuf /\ last.a1.isbuf

\* The contents of the bytes objects an instance has returned, in order.
OutData(o) == [n \in 1..Len(outs[o]) |-> mem[outs[o][n]].data]

\* The first n outputs of a generator in the given state.
RECURSIVE GenSeq(_, _, _)
GenSeq(tbl, state, n) ==
    IF n = 0 THEN <<>>
    ELSE LET g == generate_rfc6979(tbl, state)
         IN  <<g.rnd>> \o GenSeq(g.tbl, g.state, n - 1)

\* The first n outputs of a generator freshly initialised from key and hash
\* contents, digests taken against the current table.
Expected(key, hash, n) ==
    LET i == init_rfc6979(oracle, key, hash)
    IN  GenSeq(i.tbl, i.state, n)

\* C1: construction on two buffers raises ValueError exactly when the key
\* or the hash is not 32 bytes long, and returns an instance exactly when
\* both are.
C1_LengthChecked ==
    NewOnBuffers =>
        /\ (last.exc = "ValueError") <=> (last.a0.len # 32 \/ last.a1.len # 32)
        /\ (last.exc = "none" /\ last.ret \in handles)
               <=> (last.a0.len = 32 /\ last.a1.len = 32)

C1_Witness ==
    /\ NewOnBuffers
    /\ last.a0.len = 33 /\ last.a1.len = 32
    /\ last.exc = "ValueError"

C3_Advances ==
    /\ [][\A o \in handles :
            (last'.op = "next" /\ last'.self = o) => heap'[o].rng # heap[o].rng]_vars
    /\ [](\A o \in handles : \A n \in 1..Len(outs[o]) :
            n > 1 => OutData(o)[n] # OutData(o)[n - 1])

C3_Witness ==
    \E o \in handles : Len(outs[o]) = 3

\* C4: every bytes object next has returned is exactly 32 bytes long, and
\* next raises nothing.
C4_ThirtyTwoBytes ==
    /\ \A a \in 1..Len(mem) : mem[a].len = 32
    /\ last.op = "next" => (last.exc = "none" /\ last.ret \in 1..Len(mem))

C4_Witness ==
    /\ last.op = "next"
    /\ Len(outs[last.self]) = 3
    /\ mem[last.ret].len = 32

\* C5: a construction that raises ValueError has not initialised the
\* generator state of the object it allocated and has returned nothing;
\* every object not returned is uninitialised and has never served next,
\* and every object the caller holds is initialised.
C5_NoPartialState ==
    /\ (last.op = "new" /\ last.exc = "ValueError") =>
           /\ heap[last.self].rng = Uninit
           /\ last.ret = 0
           /\ last.self \notin handles
    /\ \A o \in 1..Len(heap) :
           /\ o \notin handles => (heap[o].rng = Uninit /\ outs[o] = <<>>)
           /\ o \in handles => heap[o].rng # Uninit

C5_Witness ==
    /\ NewOnBuffers
    /\ last.a0.len = 32 /\ last.a1.len = 31
    /\ last.exc = "ValueError"
    /\ handles # {}

\* An object is Ready: the caller holds it and its state is initialised.
Ready(o) == o \in handles /\ heap[o].rng # Uninit

\* C6: an object becomes Ready only by a construction that raised nothing;
\* a Ready object stays Ready over every step; next on a Ready object
\* raises nothing and leaves the object callable again.
C6_Lifecycle ==
    /\ [](\A o \in handles : Ready(o))
    /\ [][\A o \in 1..Len(heap') :
            /\ (o \in handles' /\ o \notin handles) =>
                   (last'.op = "new" /\ last'.exc = "none" /\ last'.ret = o)
            /\ (o \in handles) => (o \in handles' /\ heap'[o].rng # Uninit)
            /\ (last'.op = "next" /\ last'.self = o) =>
                   (o \in handles /\ last'.exc = "none")
            /\ (o \in handles') => NextCallable(o)']_vars

C6_Witness ==
    \E o \in handles :
        /\ last.op = "next" /\ last.self = o
        /\ Len(outs[o]) = 2
        /\ Len(mem) < MaxCalls

\* The messages of the two length checks.
KeyMsg == "Private key has to be 32 bytes long"
HashMsg == "Hash has to be 32 bytes long"

\* C7: on two buffers, a key of the wrong length is reported with the
\* private-key message whatever the hash length is, and the hash message
\* is reported exactly when the key is 32 bytes long and the hash is not.
C7_FirstCheckReported ==
    NewOnBuffers =>
        /\ last.a0.len # 32 => (last.exc = "ValueError" /\ last.msg = KeyMsg)
        /\ (last.msg = HashMsg) <=> (last.a0.len = 32 /\ last.a1.len # 32)

C7_Witness ==
    /\ NewOnBuffers
    /\ last.a0.len = 31 /\ last.a1.len = 33
    /\ last.msg = KeyMsg

\* C8: the outputs of an instance are those of a generator initialised from
\* the key and hash contents read at construction, whatever the caller's
\* buffers hold by now.
C8_SeedNotReread ==
    \A o \in handles :
        OutData(o) = Expected(seed[o][1], seed[o][2], Len(outs[o]))

C8_Witness ==
    \E o \in handles :
        /\ last.op = "next" /\ last.self = o
        /\ Len(outs[o]) = 2
        /\ bufs[1] # seed[o][1]
        /\ bufs[2] # seed[o][2]

\* C9: a call leaves every Rfc6979 object other than the one it works on
\* as it was: its generator state and the outputs it has returned.
C9_OthersUnchanged ==
    [][\A o \in 1..Len(heap) :
         last'.self # o =>
             /\ heap'[o] = heap[o]
             /\ OutData(o)' = OutData(o)]_vars

C9_Witness ==
    /\ last.op = "next"
    /\ \E o \in handles : o # last.self /\ Len(outs[o]) > 0

\* C10: a bytes object, once returned, keeps its contents over every later
\* step, each next returns an address no earlier call returned, and no two
\* returned objects share an address.
C10_FreshImmutable ==
    /\ [][/\ \A a \in 1..Len(mem) : a <= Len(mem') /\ mem'[a] = mem[a]
          /\ last'.op = "next" =>
                 \A o \in 1..Len(outs) : \A n \in 1..Len(outs[o]) :
                     outs[o][n] # last'.ret]_vars
    /\ [](\A i \in 1..Len(outs), j \in 1..Len(outs) :
            \A n \in 1..Len(outs[i]), m \in 1..Len(outs[j]) :
                (i # j \/ n # m) => outs[i][n] # outs[j][m])

C10_Witness ==
    \E i \in handles, j \in handles :
        i # j /\ Len(outs[i]) = 2 /\ Len(outs[j]) = 1

====
